---- MODULE Spec2Model ----
(***************************************************************************)
(* A model of rocket_engine/storage.py: the Blobstore storage backend, its *)
(* file handle, the Blobstore upload handler, the uploaded-blob file, the  *)
(* serve_file helper and the Cloud Storage backend.                        *)
(*                                                                         *)
(* Python strings are sequences of one-character strings, so that          *)
(* replace, lstrip, split and %-formatting are computed as the code        *)
(* computes them.                                                          *)
(***************************************************************************)
EXTENDS Integers, Sequences, FiniteSets, TLC

\* ------------------------------------------------------------------ bounds
MaxLen == 2        \* longest name handed to the Blobstore storage
MaxBlobSize == 1   \* largest size recorded for a blob
MaxData == 3       \* longest blob content read through chunks()
MaxParts == 3      \* parts handled by one upload handler instance
MaxChunks == 2     \* raw chunks fed to the handler for one part

\* --------------------------------------------------------- string helpers
Chars == {"k", "/", "\\"}

SeqsUpTo(S, n) == UNION {[1..i -> S] : i \in 0..n}

Names == SeqsUpTo(Chars, MaxLen)

\* str.replace('\\', '/')
replace_backslash(s) == [i \in 1..Len(s) |-> IF s[i] = "\\" THEN "/" ELSE s[i]]

\* str.lstrip('/')
RECURSIVE lstrip_slash(_)
lstrip_slash(s) ==
    IF s # <<>> /\ Head(s) = "/" THEN lstrip_slash(Tail(s)) ELSE s

\* str.split('/', 1)[0]
RECURSIVE split_first(_)
split_first(s) ==
    IF s = <<>> \/ Head(s) = "/" THEN <<>>
    ELSE <<Head(s)>> \o split_first(Tail(s))

\* str.rsplit('/', 1)[0]
RECURSIVE rsplit_first(_)
rsplit_first(s) ==
    IF s = <<>> THEN <<>>
    ELSE IF s[Len(s)] = "/" THEN SubSeq(s, 1, Len(s) - 1)
    ELSE IF \E i \in 1..Len(s) : s[i] = "/"
         THEN rsplit_first(SubSeq(s, 1, Len(s) - 1))
         ELSE s

\* ------------------------------------------------------------- Blobstore
\* Blob keys are opaque tokens minted by the Blobstore; they hold no '/'.
Keys == {<<"k">>, <<"k", "k">>}

ContentTypes == {"", "text/plain"}

\* What BlobInfo.get returns for a key that names no blob (Python None).
NoBlob == [present |-> FALSE, key |-> <<>>, size |-> 0, content_type |-> ""]

BlobInfos(k) ==
    {[present |-> TRUE, key |-> k, size |-> n, content_type |-> c] :
        n \in 0..MaxBlobSize, c \in ContentTypes}

Stores == {f \in [Keys -> UNION {BlobInfos(k) : k \in Keys} \cup {NoBlob}] :
              \A k \in Keys : f[k] = NoBlob \/ f[k].key = k}

VARIABLES
    blobstore,   \* the Blobstore: key -> BlobInfo entity, or NoBlob
    committed,   \* keys under which a blob was ever committed
    deleted,     \* the last name whose delete() removed a blob, or <<>>
    op           \* the last storage operation and its outcome

storeVars == <<blobstore, committed, deleted, op>>

\* BlobstoreStorage._get_key
_get_key_rsplit(name) == rsplit_first(name)

_get_key(name) == split_first(name)

\* BlobInfo.get(key) against a given Blobstore
BlobInfo_get(store, key) == IF key \in Keys THEN store[key] ELSE NoBlob

\* BlobstoreStorage._get_blobinfo
_get_blobinfo(store, name) == BlobInfo_get(store, _get_key(name))

\* BlobstoreFile.__init__: the handle keeps name, mode and the looked-up info
BlobstoreFile(store, name, mode) ==
    [name |-> name, mode |-> mode, blobstore_info |-> _get_blobinfo(store, name)]

\* BlobstoreStorage._save: which branch the probing of content takes
_save_status(content) ==
    IF content.holder = "none" THEN "ValueError"
    ELSE IF content.data_type \in {"BlobInfo", "BlobKey"} THEN "ok"
    ELSE "ValueError"

\* BlobstoreStorage._save: '%s/%s' % (data, name.lstrip('/'))
_save_name(name, content) ==
    content.key \o <<"/">> \o lstrip_slash(replace_backslash(name))

\* Names handed to open/exists/size/delete: a non-empty first segment.
ReadNames == {n \in Names : _get_key(n) # <<>>}

Modes == {"rb", "wb", "ab"}
WriteModes == {"wb", "ab"}

\* What save() is handed: where blobstore_info hangs (content.file, content
\* itself, nowhere) and what it is.
Contents ==
    [holder : {"file", "direct", "none"},
     data_type : {"BlobInfo", "BlobKey", "other"},
     key : Keys]

NoContent == [holder |-> "none", data_type |-> "other", key |-> <<>>]

OpRec(o, n, m, st, b, num, s, c, i) ==
    [op |-> o, name |-> n, mode |-> m, status |-> st, bool |-> b,
     num |-> num, str |-> s, content |-> c, info |-> i]

\* BlobstoreStorage._open: builds the handle, whatever the mode
_open(name, mode) ==
    /\ op' = OpRec("open", name, mode, "ok", FALSE, 0, <<>>, NoContent,
                   BlobstoreFile(blobstore, name, mode).blobstore_info)
    /\ UNCHANGED <<blobstore, committed, deleted>>

\* BlobstoreStorage._save
_save(name, content) ==
    /\ op' = IF _save_status(content) = "ok"
             THEN OpRec("save", name, "", "ok", FALSE, 0,
                        _save_name(name, content), content, NoBlob)
             ELSE OpRec("save", name, "", _save_status(content), FALSE, 0,
                        <<>>, content, NoBlob)
    /\ UNCHANGED <<blobstore, committed, deleted>>

\* BlobstoreStorage.delete: blobstore.delete removes the blob if there is one
delete(name) ==
    /\ blobstore' = [k \in Keys |->
                        IF k = _get_key(name) THEN NoBlob ELSE blobstore[k]]
    /\ deleted' = IF _get_blobinfo(blobstore, name).present
                  THEN name ELSE deleted
    /\ op' = OpRec("delete", name, "", "ok", FALSE, 0, <<>>, NoContent, NoBlob)
    /\ UNCHANGED committed

\* BlobstoreStorage.exists
exists(name) ==
    /\ op' = OpRec("exists", name, "", "ok",
                   _get_blobinfo(blobstore, name) # NoBlob, 0, <<>>, NoContent, NoBlob)
    /\ UNCHANGED <<blobstore, committed, deleted>>

\* BlobstoreStorage.size: None has no attribute size
size(name) ==
    /\ op' = IF _get_blobinfo(blobstore, name) = NoBlob
             THEN OpRec("size", name, "", "AttributeError", FALSE, 0, <<>>,
                        NoContent, NoBlob)
             ELSE OpRec("size", name, "", "ok", FALSE,
                        _get_blobinfo(blobstore, name).size, <<>>, NoContent, NoBlob)
    /\ UNCHANGED <<blobstore, committed, deleted>>

\* BlobstoreFile.write, on the handle the last _open returned
write_accepts ==
    /\ op.op \in {"open", "write"}
    /\ op' = [op EXCEPT !.op = "write",
                        !.status = IF op.mode \in WriteModes THEN "ok"
                                   ELSE "NotImplementedError"]
    /\ UNCHANGED <<blobstore, committed, deleted>>

write ==
    /\ op.op \in {"open", "write"}
    /\ op' = [op EXCEPT !.op = "write", !.status = "NotImplementedError"]
    /\ UNCHANGED <<blobstore, committed, deleted>>

\* No operation made yet
NoOp == OpRec("none", <<>>, "", "ok", FALSE, 0, <<>>, NoContent, NoBlob)

\* ------------------------------------------------ BlobstoreFileUploadHandler
VARIABLES
    hpc,       \* "idle" between parts, "part" from new_file to file_complete
    extra,     \* content_type_extra of the current part: its 'blob-key', if any
    active,    \* self.active: "unset" until the first new_file
    blobkey,   \* self.blobkey: <<>> until a part carried a key
    signal,    \* new_file of the current part raised StopFutureHandlers
    recv,      \* the raw chunks handed to receive_data_chunk for this part
    fwd,       \* the chunks receive_data_chunk returned for later handlers
    result,    \* what file_complete of the last completed part produced
    nparts     \* parts started so far on this handler instance

handlerVars == <<hpc, extra, active, blobkey, signal, recv, fwd, result, nparts>>

Chunks == {"a", "b"}

NoExtra == [has |-> FALSE, key |-> <<>>]
Extras == {NoExtra} \cup {[has |-> TRUE, key |-> k] : k \in Keys}

NoResult == [status |-> "none", key |-> <<>>, size |-> 0, content_type |-> ""]

\* BlobstoreFileUploadHandler.new_file
new_file_sticky(e) ==
    /\ hpc = "idle"
    /\ nparts < MaxParts
    /\ hpc' = "part"
    /\ nparts' = nparts + 1
    /\ extra' = e
    /\ active' = IF e.has \/ active = "True" THEN "True" ELSE "False"
    /\ blobkey' = IF e.has THEN e.key ELSE blobkey
    /\ signal' = e.has
    /\ recv' = <<>>
    /\ fwd' = <<>>
    /\ UNCHANGED result

new_file(e) ==
    /\ hpc = "idle"
    /\ nparts < MaxParts
    /\ hpc' = "part"
    /\ nparts' = nparts + 1
    /\ extra' = e
    /\ active' = IF e.has THEN "True" ELSE "False"
    /\ blobkey' = IF e.has THEN e.key ELSE blobkey
    /\ signal' = e.has
    /\ recv' = <<>>
    /\ fwd' = <<>>
    /\ UNCHANGED result

\* BlobstoreFileUploadHandler.receive_data_chunk: raw_data, or None
receive_data_chunk_forwards(raw_data) ==
    /\ hpc = "part"
    /\ Len(recv) < MaxChunks
    /\ recv' = Append(recv, raw_data)
    /\ fwd' = Append(fwd, raw_data)
    /\ UNCHANGED <<hpc, extra, active, blobkey, signal, result, nparts>>

receive_data_chunk(raw_data) ==
    /\ hpc = "part"
    /\ Len(recv) < MaxChunks
    /\ recv' = Append(recv, raw_data)
    /\ fwd' = IF active # "True" THEN Append(fwd, raw_data) ELSE fwd
    /\ UNCHANGED <<hpc, extra, active, blobkey, signal, result, nparts>>

\* BlobstoreUploadedFile.__init__: reading blobinfo.filename, .content_type
\* and .size of a BlobInfo built from a bare key loads the entity, which
\* fails when the key names no blob.
BlobstoreUploadedFile_lazy(store, key) ==
    [status |-> "file", key |-> key,
     size |-> BlobInfo_get(store, key).size,
     content_type |-> BlobInfo_get(store, key).content_type]

BlobstoreUploadedFile(store, key) ==
    IF BlobInfo_get(store, key).present
    THEN [status |-> "file", key |-> key,
          size |-> BlobInfo_get(store, key).size,
          content_type |-> BlobInfo_get(store, key).content_type]
    ELSE [status |-> "EntityNotFoundError", key |-> key, size |-> 0,
          content_type |-> ""]

\* BlobstoreFileUploadHandler.file_complete
file_complete ==
    /\ hpc = "part"
    /\ hpc' = "idle"
    /\ result' = IF active # "True"
                 THEN [NoResult EXCEPT !.status = "None"]
                 ELSE BlobstoreUploadedFile(blobstore, blobkey)
    /\ UNCHANGED <<extra, active, blobkey, signal, recv, fwd, nparts>>

\* ----------------------------------------------------- BlobstoreUploadedFile
VARIABLES
    data,      \* the bytes of the blob behind the uploaded file
    cursor,    \* position of the BlobReader (self.file)
    cpc,       \* "idle", "created" (generator made, not started), "running", "done"
    csize,     \* chunk_size of the chunks() call in progress
    cstart,    \* where the cursor stood when the pass ran its first step
    out        \* the chunks yielded by the pass in progress

chunkVars == <<data, cursor, cpc, csize, cstart, out>>

Bytes == {0, 1}

ChunkSizes == (1..(MaxData + 1)) \cup {128}

Min(a, b) == IF a < b THEN a ELSE b

\* BlobReader.read(n) from position pos: the bytes returned
reader_bytes(pos, n) == SubSeq(data, pos + 1, Min(pos + n, Len(data)))

RECURSIVE Concat(_)
Concat(ss) == IF ss = <<>> THEN <<>> ELSE Head(ss) \o Concat(Tail(ss))

\* UploadedFile.read(n) outside a pass: moves the cursor of self.file
uploaded_read(n) ==
    /\ cpc \in {"idle", "created", "done"}
    /\ cursor' = cursor + Len(reader_bytes(cursor, n))
    /\ UNCHANGED <<data, cpc, csize, cstart, out>>

\* BlobstoreUploadedFile.chunks: the call only builds the generator; a pass
\* left unfinished is dropped by calling again
chunks(c) ==
    /\ cpc' = "created"
    /\ csize' = c
    /\ out' = <<>>
    /\ UNCHANGED <<data, cursor, cstart>>

\* One step of the generator: seek(0) on the first, then read(chunk_size),
\* stop on an empty read, else yield
chunks_step_noseek ==
    /\ cpc \in {"created", "running"}
    /\ cstart' = IF cpc = "created" THEN cursor ELSE cstart
    /\ cursor' = cursor + Len(reader_bytes(cursor, csize))
    /\ IF reader_bytes(cursor, csize) = <<>>
       THEN cpc' = "done" /\ out' = out
       ELSE cpc' = "running" /\ out' = Append(out, reader_bytes(cursor, csize))
    /\ UNCHANGED <<data, csize>>

chunks_step ==
    /\ cpc \in {"created", "running"}
    /\ cstart' = IF cpc = "created" THEN cursor ELSE cstart
    /\ LET pos == IF cpc = "created" THEN 0 ELSE cursor
           content == reader_bytes(pos, csize)
       IN /\ cursor' = pos + Len(content)
          /\ IF content = <<>>
             THEN cpc' = "done" /\ out' = out
             ELSE cpc' = "running" /\ out' = Append(out, content)
    /\ UNCHANGED <<data, csize>>

\* ------------------------------------------------------------------ serve_file
VARIABLES
    served     \* the last serve_file call: its arguments and its response

NoRange == [has |-> FALSE, value |-> ""]
Ranges == {NoRange, [has |-> TRUE, value |-> ""],
           [has |-> TRUE, value |-> "bytes=10-20"]}

\* save_as: False/None, or the display name
NoSaveAs == [has |-> FALSE, name |-> ""]
SaveAs == {NoSaveAs, [has |-> TRUE, name |-> ""], [has |-> TRUE, name |-> "a.txt"]}

\* file.size: None, or the object's size
NoSize == [known |-> FALSE, n |-> 0]
Sizes == {NoSize} \cup {[known |-> TRUE, n |-> n] : n \in 0..MaxBlobSize}

\* The file argument: a FieldFile-like wrapper whose .file carries
\* blobstore_info, an object carrying blobstore_info itself, or neither.
Files == [kind : {"wrapper", "direct", "plain"}, key : Keys, size : Sizes]

BLOB_KEY_HEADER == "X-AppEngine-BlobKey"
BLOB_RANGE_HEADER == "X-AppEngine-BlobRange"

HeaderNames == {BLOB_KEY_HEADER, BLOB_RANGE_HEADER, "Accept-Ranges",
                "Content-Disposition", "Content-Length"}

\* The headers serve_file sets, as a function on the names it sets
serve_headers_truthy_size(range, file, save_as) ==
    [h \in {BLOB_KEY_HEADER, "Accept-Ranges"}
        \cup (IF range.has THEN {BLOB_RANGE_HEADER} ELSE {})
        \cup (IF save_as.has /\ save_as.name # "" THEN {"Content-Disposition"} ELSE {})
        \cup (IF file.size.known /\ file.size.n # 0 THEN {"Content-Length"} ELSE {})
     |-> CASE h = BLOB_KEY_HEADER -> file.key
           [] h = "Accept-Ranges" -> "bytes"
           [] h = BLOB_RANGE_HEADER -> range.value
           [] h = "Content-Disposition" -> <<"attachment; filename=", save_as.name>>
           [] h = "Content-Length" -> file.size.n]

serve_headers(range, file, save_as) ==
    [h \in {BLOB_KEY_HEADER, "Accept-Ranges"}
        \cup (IF range.has THEN {BLOB_RANGE_HEADER} ELSE {})
        \cup (IF save_as.has /\ save_as.name # "" THEN {"Content-Disposition"} ELSE {})
        \cup (IF file.size.known THEN {"Content-Length"} ELSE {})
     |-> CASE h = BLOB_KEY_HEADER -> file.key
           [] h = "Accept-Ranges" -> "bytes"
           [] h = BLOB_RANGE_HEADER -> range.value
           [] h = "Content-Disposition" -> <<"attachment; filename=", save_as.name>>
           [] h = "Content-Length" -> file.size.n]

NoHeaders == [h \in {} |-> ""]

NoServed ==
    [status |-> "none", range |-> NoRange,
     file |-> [kind |-> "plain", key |-> <<"k">>, size |-> NoSize],
     save_as |-> NoSaveAs, headers |-> NoHeaders]

\* serve_file
serve_file(range, file, save_as) ==
    served' = IF file.kind = "plain"
              THEN [status |-> "ValueError", range |-> range, file |-> file,
                    save_as |-> save_as, headers |-> NoHeaders]
              ELSE [status |-> "ok", range |-> range, file |-> file,
                    save_as |-> save_as,
                    headers |-> serve_headers(range, file, save_as)]

\* ---------------------------------------------------------------- CloudStorage
VARIABLES
    gs,        \* the bucket as readers see it: name -> finalized object, if any
    wfile,     \* per client: the write destination its save() holds
    spc,       \* per client: "idle", "created", "written", "failed" (save raised)
    obs        \* the last reader call and what it saw

cloudVars == <<gs, wfile, spc, obs>>

Clients == {1, 2}
CloudNames == {"x", "y"}
CloudContents == SeqsUpTo({0}, MaxBlobSize + 1)

\* src is the whole source handed to the save that produced the object
NoObject == [present |-> FALSE, bytes |-> <<>>, src |-> <<>>]
NoWFile == [name |-> "", bytes |-> <<>>, src |-> <<>>]
NoObs == [op |-> "none", name |-> "", status |-> "ok", bool |-> FALSE,
          bytes |-> <<>>, src |-> <<>>, num |-> 0]

ProperPrefixes(c) == {SubSeq(c, 1, i) : i \in 0..(Len(c) - 1)}

\* CloudStorage.save, files.gs.create: a write destination, invisible to readers
save_create(p, name, content) ==
    /\ spc[p] \in {"idle", "failed"}
    /\ spc' = [spc EXCEPT ![p] = "created"]
    /\ wfile' = [wfile EXCEPT ![p] = [name |-> name, bytes |-> <<>>, src |-> content]]
    /\ UNCHANGED <<gs, obs>>

\* CloudStorage.save, the with block: fp.write(content.read()), then close
save_write(p) ==
    /\ spc[p] = "created"
    /\ spc' = [spc EXCEPT ![p] = "written"]
    /\ wfile' = [wfile EXCEPT ![p].bytes = wfile[p].src]
    /\ UNCHANGED <<gs, obs>>

\* CloudStorage.save, the with block raising (the source read or the write
\* fails after some bytes): save() is left without reaching files.finalize
save_abort_finalizes(p, partial) ==
    /\ spc[p] = "created"
    /\ partial \in ProperPrefixes(wfile[p].src) \cup {<<>>}
    /\ spc' = [spc EXCEPT ![p] = "failed"]
    /\ gs' = [gs EXCEPT ![wfile[p].name] =
                 [present |-> TRUE, bytes |-> partial, src |-> wfile[p].src]]
    /\ wfile' = [wfile EXCEPT ![p] = NoWFile]
    /\ UNCHANGED obs

save_abort(p, partial) ==
    /\ spc[p] = "created"
    /\ partial \in ProperPrefixes(wfile[p].src) \cup {<<>>}
    /\ spc' = [spc EXCEPT ![p] = "failed"]
    /\ wfile' = [wfile EXCEPT ![p] = NoWFile]
    /\ UNCHANGED <<gs, obs>>

\* CloudStorage.save, files.finalize: the object becomes readable
save_finalize(p) ==
    /\ spc[p] = "written"
    /\ spc' = [spc EXCEPT ![p] = "idle"]
    /\ gs' = [gs EXCEPT ![wfile[p].name] =
                 [present |-> TRUE, bytes |-> wfile[p].bytes, src |-> wfile[p].src]]
    /\ wfile' = [wfile EXCEPT ![p] = NoWFile]
    /\ UNCHANGED obs

\* CloudStorage.exists
cloud_exists(name) ==
    /\ obs' = [NoObs EXCEPT !.op = "exists", !.name = name,
                            !.bool = gs[name].present,
                            !.bytes = gs[name].bytes, !.src = gs[name].src]
    /\ UNCHANGED <<gs, wfile, spc>>

\* CloudStorage._open
cloud_open(name) ==
    /\ obs' = IF gs[name].present
              THEN [NoObs EXCEPT !.op = "open", !.name = name,
                                 !.bytes = gs[name].bytes, !.src = gs[name].src]
              ELSE [NoObs EXCEPT !.op = "open", !.name = name,
                                 !.status = "ExistenceError"]
    /\ UNCHANGED <<gs, wfile, spc>>

\* CloudStorage.size
cloud_size(name) ==
    /\ obs' = IF gs[name].present
              THEN [NoObs EXCEPT !.op = "size", !.name = name,
                                 !.num = Len(gs[name].bytes),
                                 !.bytes = gs[name].bytes, !.src = gs[name].src]
              ELSE [NoObs EXCEPT !.op = "size", !.name = name,
                                 !.status = "ExistenceError"]
    /\ UNCHANGED <<gs, wfile, spc>>

\* ------------------------------------------------------------ specifications
vars == <<storeVars, handlerVars, chunkVars, served, cloudVars>>

\* After construction, over any Blobstore content: the storage and the handler
InitStorage ==
    /\ blobstore \in Stores
    /\ committed = {k \in Keys : blobstore[k].present}
    /\ deleted = <<>>
    /\ op = NoOp
    /\ hpc = "idle"
    /\ extra = NoExtra
    /\ active = "unset"
    /\ blobkey = <<>>
    /\ signal = FALSE
    /\ recv = <<>>
    /\ fwd = <<>>
    /\ result = NoResult
    /\ nparts = 0
    /\ data = <<>>
    /\ cursor = 0
    /\ cpc = "idle"
    /\ csize = 1
    /\ cstart = 0
    /\ out = <<>>
    /\ served = NoServed
    /\ gs = [n \in CloudNames |-> NoObject]
    /\ wfile = [p \in Clients |-> NoWFile]
    /\ spc = [p \in Clients |-> "idle"]
    /\ obs = NoObs

\* An uploaded file over any blob content, its reader at position 0
InitChunks ==
    /\ blobstore = [k \in Keys |-> NoBlob]
    /\ committed = {}
    /\ deleted = <<>>
    /\ op = NoOp
    /\ hpc = "idle"
    /\ extra = NoExtra
    /\ active = "unset"
    /\ blobkey = <<>>
    /\ signal = FALSE
    /\ recv = <<>>
    /\ fwd = <<>>
    /\ result = NoResult
    /\ nparts = 0
    /\ data \in SeqsUpTo(Bytes, MaxData)
    /\ cursor = 0
    /\ cpc = "idle"
    /\ csize = 1
    /\ cstart = 0
    /\ out = <<>>
    /\ served = NoServed
    /\ gs = [n \in CloudNames |-> NoObject]
    /\ wfile = [p \in Clients |-> NoWFile]
    /\ spc = [p \in Clients |-> "idle"]
    /\ obs = NoObs

\* After construction, nothing stored: serve_file and CloudStorage
InitOther ==
    /\ blobstore = [k \in Keys |-> NoBlob]
    /\ committed = {}
    /\ deleted = <<>>
    /\ op = NoOp
    /\ hpc = "idle"
    /\ extra = NoExtra
    /\ active = "unset"
    /\ blobkey = <<>>
    /\ signal = FALSE
    /\ recv = <<>>
    /\ fwd = <<>>
    /\ result = NoResult
    /\ nparts = 0
    /\ data = <<>>
    /\ cursor = 0
    /\ cpc = "idle"
    /\ csize = 1
    /\ cstart = 0
    /\ out = <<>>
    /\ served = NoServed
    /\ gs = [n \in CloudNames |-> NoObject]
    /\ wfile = [p \in Clients |-> NoWFile]
    /\ spc = [p \in Clients |-> "idle"]
    /\ obs = NoObs

\* What each component leaves alone
exceptStore == <<handlerVars, chunkVars, served, cloudVars>>
exceptHandler == <<storeVars, chunkVars, served, cloudVars>>
exceptChunks == <<storeVars, handlerVars, served, cloudVars>>
exceptServe == <<storeVars, handlerVars, chunkVars, cloudVars>>
exceptCloud == <<storeVars, handlerVars, chunkVars, served>>

NextSave ==
    \E n \in Names, c \in Contents : _save(n, c) /\ UNCHANGED exceptStore

NextStore ==
    \/ \E n \in ReadNames, m \in Modes : _open(n, m) /\ UNCHANGED exceptStore
    \/ \E n \in ReadNames : delete(n) /\ UNCHANGED exceptStore
    \/ \E n \in ReadNames : exists(n) /\ UNCHANGED exceptStore
    \/ \E n \in ReadNames : size(n) /\ UNCHANGED exceptStore
    \/ write /\ UNCHANGED exceptStore

NextHandler ==
    \/ \E e \in Extras : new_file(e) /\ UNCHANGED exceptHandler
    \/ \E d \in Chunks : receive_data_chunk(d) /\ UNCHANGED exceptHandler
    \/ file_complete /\ UNCHANGED exceptHandler

NextChunks ==
    \/ \E n \in 1..MaxData : uploaded_read(n) /\ UNCHANGED exceptChunks
    \/ \E c \in ChunkSizes : chunks(c) /\ UNCHANGED exceptChunks
    \/ chunks_step /\ UNCHANGED exceptChunks

NextServe ==
    \E r \in Ranges, f \in Files, sa \in SaveAs :
        serve_file(r, f, sa) /\ UNCHANGED exceptServe

NextCloud ==
    \/ \E p \in Clients, n \in CloudNames, c \in CloudContents :
          save_create(p, n, c) /\ UNCHANGED exceptCloud
    \/ \E p \in Clients : save_write(p) /\ UNCHANGED exceptCloud
    \/ \E p \in Clients, c \in CloudContents :
          save_abort(p, c) /\ UNCHANGED exceptCloud
    \/ \E p \in Clients : save_finalize(p) /\ UNCHANGED exceptCloud
    \/ \E n \in CloudNames : cloud_exists(n) /\ UNCHANGED exceptCloud
    \/ \E n \in CloudNames : cloud_open(n) /\ UNCHANGED exceptCloud
    \/ \E n \in CloudNames : cloud_size(n) /\ UNCHANGED exceptCloud

SpecSave == InitStorage /\ [][NextSave]_vars
SpecStore == InitStorage /\ [][NextStore]_vars
SpecHandler == InitStorage /\ [][NextHandler]_vars
SpecChunks == InitChunks /\ [][NextChunks]_vars
SpecServe == InitOther /\ [][NextServe]_vars
SpecCloud == InitOther /\ [][NextCloud]_vars

\* -------------------------------------------------------------------- claims
\* How the exceptions of the code read in the error taxonomy
NotFound == {"EntityNotFoundError", "BlobNotFoundError", "ExistenceError"}
Unsupported == {"NotImplementedError"}

\* The part the handler is on, or has just completed, carries a key that
\* names no blob
UnresolvedPart == nparts > 0 /\ extra.has /\ ~ blobstore[extra.key].present

\* C1: for the part in hand, a blob key in its extra parameters puts the
\* handler in the short-circuited state, raises StopFutureHandlers and
\* forwards none of the chunks received; without a key the handler passes
\* through and forwards every chunk received, unchanged and in order.
C1_ShortCircuitOrPassthrough ==
    nparts > 0 =>
        IF extra.has
        THEN active = "True" /\ signal /\ fwd = <<>>
        ELSE active = "False" /\ fwd = recv

C1_Witness ==
    /\ nparts >= 2
    /\ extra.has
    /\ Len(recv) >= 2
    /\ fwd = <<>>

C3_SaveOpenRoundTrip ==
    (/\ op.op = "save"
     /\ op.content.holder # "none"
     /\ op.content.data_type \in {"BlobInfo", "BlobKey"}
     /\ blobstore[op.content.key].present) =>
        LET key == op.content.key
            canon == op.str
        IN /\ op.status = "ok"
           /\ Len(canon) > Len(key)
           /\ SubSeq(canon, 1, Len(key)) = key
           /\ canon[Len(key) + 1] = "/"
           /\ _get_key(canon) = key
           /\ BlobstoreFile(blobstore, canon, "rb").blobstore_info = blobstore[key]

C3_Witness ==
    /\ op.op = "save"
    /\ op.status = "ok"
    /\ blobstore[op.content.key].present
    /\ Len(op.name) >= 2
    /\ op.name[1] \in {"/", "\\"}

\* C4 as stated: for a name whose key was never committed, exists is false
\* without raising and size and open fail with NotFound.
C4_NeverStoredNotFound ==
    (op.op \in {"exists", "size", "open"} /\ _get_key(op.name) \notin committed) =>
        /\ op.op = "exists" => (op.status = "ok" /\ ~ op.bool)
        /\ op.op \in {"size", "open"} => op.status \in NotFound

\* C5 as stated: once delete(n) removed the blob, exists(n) is false and
\* open(n) fails with NotFound.
C5_DeletedNotFound ==
    (deleted # <<>> /\ op.name = deleted) =>
        /\ op.op = "exists" => (op.status = "ok" /\ ~ op.bool)
        /\ op.op = "open" => op.status \in NotFound

\* C6: an object is readable only as a finalized save left it, with the whole
\* of that save's source; what exists, open and size report is such an
\* object, never the bytes of a save still in progress or aborted.
C6_VisibleOnlyWhenFinalized ==
    /\ \A n \in CloudNames : gs[n].present => gs[n].bytes = gs[n].src
    /\ ((obs.op = "exists" /\ obs.bool)
          \/ (obs.op \in {"open", "size"} /\ obs.status = "ok"))
         => (obs.bytes = obs.src /\ (obs.op = "size" => obs.num = Len(obs.src)))

C6_Witness ==
    /\ obs.op = "exists"
    /\ ~ obs.bool
    /\ \E p \in Clients :
          /\ spc[p] = "written"
          /\ wfile[p].name = obs.name
          /\ wfile[p].bytes # <<>>

\* C7: a pass of chunks(c) starts from position 0 wherever the cursor stood,
\* yields only non-empty chunks of at most c bytes, and when it ends on the
\* empty read the chunks yielded, concatenated, are the blob's bytes.
C7_ChunksReproduceData ==
    /\ cpc \in {"running", "done"} =>
          \A i \in 1..Len(out) : Len(out[i]) >= 1 /\ Len(out[i]) <= csize
    /\ cpc = "running" => Concat(out) = SubSeq(data, 1, cursor)
    /\ cpc = "done" => Concat(out) = data

C7_Witness ==
    /\ cpc = "done"
    /\ cstart > 0
    /\ Len(out) >= 2
    /\ Len(out[Len(out)]) < csize

C9_WriteModeOpenUnsupported ==
    (op.op = "open" /\ op.mode \in WriteModes) => op.status \in Unsupported

\* C9 amended: open never fails on account of the mode, it returns a handle
\* that records the mode; every write on a handle fails with Unsupported,
\* whatever the name and the mode it was opened with.
C9_WriteUnsupportedAtWrite ==
    /\ op.op = "open" => op.status = "ok"
    /\ op.op = "write" => op.status \in Unsupported

C9_Witness ==
    /\ op.op = "write"
    /\ op.mode \in WriteModes
    /\ op.status = "NotImplementedError"

\* C10: the response for a blob-backed file carries the blob-key header set
\* to the file's key and Accept-Ranges: bytes; the blob-range header, equal to
\* the request's Range, exactly when the request had one; Content-Disposition
\* 'attachment; filename=<name>' exactly when a (non-empty) display name was
\* given; Content-Length, equal to the file's size, exactly when it is known.
C10_ResponseHeaders ==
    /\ served.status = "ok" <=> served.file.kind \in {"wrapper", "direct"}
    /\ served.status = "ok" =>
          LET h == served.headers
          IN /\ BLOB_KEY_HEADER \in DOMAIN h
             /\ h[BLOB_KEY_HEADER] = served.file.key
             /\ "Accept-Ranges" \in DOMAIN h
             /\ h["Accept-Ranges"] = "bytes"
             /\ BLOB_RANGE_HEADER \in DOMAIN h <=> served.range.has
             /\ served.range.has => h[BLOB_RANGE_HEADER] = served.range.value
             /\ "Content-Disposition" \in DOMAIN h
                   <=> (served.save_as.has /\ served.save_as.name # "")
             /\ "Content-Disposition" \in DOMAIN h
                   => h["Content-Disposition"]
                         = <<"attachment; filename=", served.save_as.name>>
             /\ "Content-Length" \in DOMAIN h <=> served.file.size.known
             /\ served.file.size.known
                   => h["Content-Length"] = served.file.size.n

C10_Witness ==
    /\ served.status = "ok"
    /\ served.range.value = "bytes=10-20"
    /\ served.save_as.name = "a.txt"
    /\ served.file.size.known
    /\ served.file.size.n = 0
    /\ "Content-Length" \in DOMAIN served.headers

====
